---- MODULE Spec2Model ----
(***************************************************************************)
(* Blue/green release orchestrator (src/pv/app.py).                        *)
(*                                                                         *)
(* Part 1: the configuration document and the pure functions that read    *)
(* and mutate it (detect_active_slot, set_active_slot_both,                *)
(* update_version, standby_slot, turn_off_standby_switch).                 *)
(* Part 2: the propose operations (create branch, read, write, open pull   *)
(* request) against a store that behaves like the GitHub contents API.     *)
(*                                                                         *)
(* A YAML value is a tagged pair: <<"str", s>>, <<"int", n>>,              *)
(* <<"bool", b>> or <<"map", m>>.  A mapping m is a sequence of entries    *)
(* [k |-> key, v |-> value] with pairwise different keys, in insertion     *)
(* order, as a Python dict / ruamel CommentedMap keeps them.               *)
(***************************************************************************)
EXTENDS Integers, Sequences, FiniteSets, TLC

Str(s) == <<"str", s>>
Num(n) == <<"int", n>>
Bool(b) == <<"bool", b>>
Map(m) == <<"map", m>>

\* isinstance(v, dict)
IsMap(v) == v[1] = "map"
\* isinstance(v, str)
IsStr(v) == v[1] = "str"

----------------------------------------------------------------------------
(* Strings.  str.lower() and str.strip() over the strings of the model.    *)

Lower(s) ==
    CASE s = "Blue" -> "blue"
      [] s = "BLUE" -> "blue"
      [] s = "Green" -> "green"
      [] s = "GREEN" -> "green"
      [] s = "ActiveSlot" -> "activeslot"
      [] s = "Weight" -> "weight"
      [] s = "Standbyweight" -> "standbyweight"
      [] s = "Standybyweight" -> "standybyweight"
      [] s = "BlueSwitch" -> "blueswitch"
      [] s = "GreenSwitch" -> "greenswitch"
      [] s = "Appversion_blue" -> "appversion_blue"
      [] s = "Appversion_green" -> "appversion_green"
      [] s = "AppversionBlue" -> "appversionblue"
      [] s = "AppVersionGreen" -> "appversiongreen"
      [] s = " Green " -> " green "
      [] OTHER -> s

Strip(s) ==
    CASE s = " Green " -> "Green"
      [] s = " green " -> "green"
      [] OTHER -> s

\* str(v) of a YAML value
PyStr(v) ==
    CASE v[1] = "str" -> v[2]
      [] v[1] = "int" -> (CASE v[2] = 0 -> "0" [] v[2] = 1 -> "1"
                            [] v[2] = 50 -> "50" [] v[2] = 100 -> "100"
                            [] OTHER -> "<int>")
      [] v[1] = "bool" -> (IF v[2] THEN "True" ELSE "False")
      [] OTHER -> "<dict>"

----------------------------------------------------------------------------
(* Mappings.                                                               *)

\* k in d
HasKey(d, k) == \E i \in 1..Len(d) : d[i].k = k

\* d[k]
Get(d, k) == d[CHOOSE i \in 1..Len(d) : d[i].k = k].v

\* d[k] = v : an existing key keeps its place, a new key goes last
Put(d, k, v) ==
    IF HasKey(d, k)
    THEN [i \in 1..Len(d) |-> IF d[i].k = k THEN [k |-> k, v |-> v] ELSE d[i]]
    ELSE Append(d, [k |-> k, v |-> v])

\* del d[k]
Del(d, k) == SelectSeq(d, LAMBDA e : e.k # k)

\* list(d.keys())
Keys(d) == [i \in 1..Len(d) |-> d[i].k]

RECURSIVE LowerKeysFrom(_, _, _)
LowerKeysFrom(d, i, acc) ==
    IF i > Len(d) THEN acc
    ELSE LowerKeysFrom(d, i + 1, Put(acc, Lower(d[i].k), d[i].v))

\* {str(k).lower(): v for k, v in d.items()} : of two keys that lower-case
\* to the same name the later one's value is kept
\* faulty variant: the keys are compared as written
KeysAsWritten(d) == d

lower_keys(d) == LowerKeysFrom(d, 1, <<>>)

\* the first key of d, in order, whose lower-cased name is in opts; 0 if none
FirstMatch(d, opts) ==
    IF \E i \in 1..Len(d) : Lower(d[i].k) \in opts
    THEN CHOOSE i \in 1..Len(d) :
            /\ Lower(d[i].k) \in opts
            /\ \A j \in 1..(i - 1) : Lower(d[j].k) \notin opts
    ELSE 0

set_key_case_insensitive(d, key_options, value) ==
    LET opts == {Lower(key_options[i]) : i \in 1..Len(key_options)}
        i == FirstMatch(d, opts)
    IN  IF i # 0 THEN Put(d, d[i].k, value)
        ELSE Put(d, key_options[1], value)

----------------------------------------------------------------------------
(* The YAML helpers of src/pv/app.py.  A function that can raise returns   *)
(* a record whose field raised tells whether it did.                        *)

SectionNames == <<"blue", "green", "Blue", "Green">>

\* doc[sec] is present and a dict
IsSection(doc, sec) == HasKey(doc, sec) /\ IsMap(Get(doc, sec))

\* lk.get(name, {})
GetOrEmpty(lk, name) == IF HasKey(lk, name) THEN Get(lk, name) ELSE Map(<<>>)

\* _lower_keys(section)["activeslot"].strip().lower() : only a str has .strip()
SectionSlot(section) ==
    LET v == Get(lower_keys(section[2]), "activeslot")
    IN  IF IsStr(v) THEN [raised |-> FALSE, val |-> Lower(Strip(v[2]))]
        ELSE [raised |-> TRUE, val |-> "AttributeError"]

\* faulty variant: the green section is looked at before the blue one
DetectGreenFirst(doc) ==
    LET lk == lower_keys(doc)
        blue == GetOrEmpty(lk, "blue")
        green == GetOrEmpty(lk, "green")
    IN  IF IsMap(green) /\ HasKey(lower_keys(green[2]), "activeslot")
        THEN SectionSlot(green)
        ELSE IF IsMap(blue) /\ HasKey(lower_keys(blue[2]), "activeslot")
        THEN SectionSlot(blue)
        ELSE IF HasKey(lk, "activeslot")
        THEN [raised |-> FALSE, val |-> Lower(Strip(PyStr(Get(lk, "activeslot"))))]
        ELSE [raised |-> FALSE, val |-> "blue"]

detect_active_slot(doc) ==
    LET lk == lower_keys(doc)
        blue == GetOrEmpty(lk, "blue")
        green == GetOrEmpty(lk, "green")
    IN  IF IsMap(blue) /\ HasKey(lower_keys(blue[2]), "activeslot")
        THEN SectionSlot(blue)
        ELSE IF IsMap(green) /\ HasKey(lower_keys(green[2]), "activeslot")
        THEN SectionSlot(green)
        ELSE IF HasKey(lk, "activeslot")
        THEN [raised |-> FALSE, val |-> Lower(Strip(PyStr(Get(lk, "activeslot"))))]
        ELSE [raised |-> FALSE, val |-> "blue"]

\* faulty variant: the standby slot does not depend on the active one
StandbyAlwaysBlue(active) == "blue"

standby_slot(active) == IF active = "blue" THEN "green" ELSE "blue"

\* _set_key_case_insensitive(doc[sec], key_options, value)
SetInSection(doc, sec, key_options, value) ==
    Put(doc, sec, Map(set_key_case_insensitive(Get(doc, sec)[2], key_options, value)))

RECURSIVE SetSlotLoop(_, _, _)
SetSlotLoop(doc, slot, i) ==
    IF i > Len(SectionNames) THEN doc
    ELSE LET sec == SectionNames[i]
         IN  SetSlotLoop(IF IsSection(doc, sec)
                         THEN SetInSection(doc, sec, <<"activeslot", "ActiveSlot">>, Str(slot))
                         ELSE doc,
                         slot, i + 1)

StandbyweightKeys == <<"Standbyweight", "standbyweight", "Standybyweight", "standybyweight">>

\* faulty variant: the two weights of a section change places
SectionWeightsExchanged(doc, sec, slot) ==
    LET m == Get(doc, sec)[2]
        w == FirstMatch(m, {"weight"})
        sw == FirstMatch(m, {"standbyweight", "standybyweight"})
    IN  SetInSection(
            SetInSection(doc, sec, <<"Weight", "weight">>,
                         IF sw # 0 THEN m[sw].v ELSE Num(0)),
            sec, StandbyweightKeys, IF w # 0 THEN m[w].v ELSE Num(100))

\* lines 134-140: the body of the second loop, for one section
SectionWeights(doc, sec, slot) ==
    LET is_active == Lower(sec) = Lower(slot)
    IN  SetInSection(
            SetInSection(doc, sec, <<"Weight", "weight">>, Num(IF is_active THEN 100 ELSE 0)),
            sec, StandbyweightKeys, Num(IF is_active THEN 0 ELSE 100))

RECURSIVE SetWeightsLoop(_, _, _)
SetWeightsLoop(doc, slot, i) ==
    IF i > Len(SectionNames) THEN doc
    ELSE SetWeightsLoop(IF IsSection(doc, SectionNames[i])
                        THEN SectionWeights(doc, SectionNames[i], slot)
                        ELSE doc,
                        slot, i + 1)

set_active_slot_both(doc, slot) == SetWeightsLoop(SetSlotLoop(doc, slot, 1), slot, 1)

VersionKeys(slot) ==
    IF slot = "blue" THEN {"appversion_blue", "appversionblue"}
    ELSE IF slot = "green" THEN {"appversion_green", "appversiongreen"}
    ELSE {}

\* faulty variant: the updated slot is also made the active one
UpdateVersionAndActivate(doc, slot, new_version) ==
    set_active_slot_both(
        Put(doc, IF slot = "blue" THEN "Appversion_blue" ELSE "Appversion_green",
            Str(new_version)),
        slot)

\* faulty variant: only the first matching version key is written
UpdateVersionFirstOnly(doc, slot, new_version) ==
    set_key_case_insensitive(
        doc,
        IF slot = "blue" THEN <<"Appversion_blue", "AppversionBlue">>
        ELSE <<"Appversion_green", "AppversionGreen">>,
        Str(new_version))

\* faulty variant: the version keys of both slots are matched
UpdateVersionBothSlots(doc, slot, new_version) ==
    [i \in 1..Len(doc) |->
        IF Lower(doc[i].k) \in VersionKeys("blue") \cup VersionKeys("green")
        THEN [k |-> doc[i].k, v |-> Str(new_version)] ELSE doc[i]]

update_version(doc, slot, new_version) ==
    LET found == \E i \in 1..Len(doc) : Lower(doc[i].k) \in VersionKeys(slot)
        written == [i \in 1..Len(doc) |->
                      IF Lower(doc[i].k) \in VersionKeys(slot)
                      THEN [k |-> doc[i].k, v |-> Str(new_version)] ELSE doc[i]]
    IN  IF found THEN written
        ELSE IF slot = "blue" THEN Put(doc, "Appversion_blue", Str(new_version))
        ELSE Put(doc, "Appversion_green", Str(new_version))

RECURSIVE SwitchLoop(_, _, _, _)
SwitchLoop(doc, secs, key_options, i) ==
    IF i > Len(secs) THEN doc
    ELSE SwitchLoop(IF IsSection(doc, secs[i])
                    THEN SetInSection(doc, secs[i], key_options, Str("off"))
                    ELSE doc,
                    secs, key_options, i + 1)

turn_off_standby_switch(doc, standby) ==
    LET d1 == IF standby = "blue"
              THEN SwitchLoop(doc, <<"blue", "Blue">>, <<"blueswitch", "BlueSwitch">>, 1)
              ELSE doc
    IN  IF standby = "green"
        THEN SwitchLoop(d1, <<"green", "Green">>, <<"greenswitch", "GreenSwitch">>, 1)
        ELSE d1

\* The document mutation of propose_auto_flip (lines 270-278): the detected
\* active slot, the target, and the mutated document.
AutoFlip(doc, turn_off_switch) ==
    LET a == detect_active_slot(doc)
        target == standby_slot(a.val)
        d1 == set_active_slot_both(doc, target)
        d2 == IF turn_off_switch THEN turn_off_standby_switch(d1, standby_slot(target)) ELSE d1
    IN  IF a.raised
        THEN [raised |-> TRUE, active |-> "", target |-> "", doc |-> doc]
        ELSE [raised |-> FALSE, active |-> a.val, target |-> target, doc |-> d2]

----------------------------------------------------------------------------
(* Documents the values file can hold.  load_yaml_from_repo returns         *)
(* whatever the file at yaml_path holds; the model starts from a few files  *)
(* and lets a commit by the file's authors set or delete one key.           *)

\* an empty file: load() gives None and load_yaml_from_repo returns {}
EmptyDoc == <<>>

\* the values file of the README (src/pv/sample.py, "YAML expectations")
ReadmeDoc ==
    << [k |-> "Appversion_blue", v |-> Str("version1")],
       [k |-> "Appversion_green", v |-> Str("version2")],
       [k |-> "blue", v |-> Map(<< [k |-> "blueswitch", v |-> Str("on")],
                                   [k |-> "enabled", v |-> Bool(TRUE)],
                                   [k |-> "activeslot", v |-> Str("blue")],
                                   [k |-> "Weight", v |-> Num(100)],
                                   [k |-> "Standbyweight", v |-> Num(0)] >>)],
       [k |-> "Green", v |-> Map(<< [k |-> "greenswitch", v |-> Str("off")],
                                    [k |-> "enabled", v |-> Bool(TRUE)],
                                    [k |-> "activeslot", v |-> Str("blue")],
                                    [k |-> "Weight", v |-> Num(100)],
                                    [k |-> "Standbyweight", v |-> Num(0)] >>)] >>

\* a file in the other spellings the helpers accept, green active
LegacyDoc ==
    << [k |-> "AppversionBlue", v |-> Str("version1")],
       [k |-> "Blue", v |-> Map(<< [k |-> "ActiveSlot", v |-> Str("green")],
                                   [k |-> "weight", v |-> Num(0)],
                                   [k |-> "Standybyweight", v |-> Num(100)] >>)],
       [k |-> "green", v |-> Map(<< [k |-> "ActiveSlot", v |-> Str("green")],
                                    [k |-> "weight", v |-> Num(100)],
                                    [k |-> "Standybyweight", v |-> Num(0)],
                                    [k |-> "GreenSwitch", v |-> Str("on")] >>)] >>

BaseDocs == {EmptyDoc, ReadmeDoc, LegacyDoc}

\* root-level assignments a commit can make
RootPuts ==
    ({"blue", "BLUE", "Green"} \X {Map(<<>>), Str("none")})
    \cup ({"activeslot"} \X {Str("green"), Num(1)})
    \cup ({"appversion_blue", "AppVersionGreen"} \X {Str("version0")})

\* assignments a commit can make inside a section
FieldPuts ==
    ({"activeslot", "ActiveSlot"} \X {Str("blue"), Str("green"), Str(" Green "), Str("purple"), Num(1)})
    \cup ({"weight", "Weight"} \X {Num(100), Num(50)})
    \cup ({"Standbyweight", "Standybyweight"} \X {Num(0)})
    \cup ({"blueswitch", "GreenSwitch"} \X {Str("on")})

Slots == {"blue", "green", "purple"}
Versions == {"version3"}

MaxEdits == 1
MaxRepeat == 3

NoOp == [op |-> "none", slot |-> "", version |-> "", off |-> FALSE,
         raised |-> FALSE, active |-> "", target |-> ""]

VARIABLES
    doc,      \* the document in memory
    orig,     \* the document as loaded, before any mutation
    before,   \* the document before the last mutation
    before2,  \* the document before the last two mutations
    last,     \* the last mutation: its arguments and what it reported
    reps,     \* how many times the last mutation was applied in a row
    edits     \* commits made to the file before it was loaded

docVars == <<doc, orig, before, before2, last, reps, edits>>

VARIABLES
    now,       \* the UTC second
    refs,      \* the store: a set of [name, file], one per existing ref
    prs,       \* the pull requests opened: a set of [head, base, by]
    commits,   \* commits made to the base branch by others
    pc,        \* per operation: the remote call it is about to make
    req,       \* per operation: its arguments
    branch,    \* per operation: branch_name
    base_sha,  \* per operation: what get_branch_sha returned (a snapshot)
    sha,       \* per operation: the sha load_yaml_from_repo returned
    newdoc,    \* per operation: the mutated document
    target,    \* per operation: the new active slot of an auto-flip
    calls,     \* per operation: the remote calls issued, in order
    result,    \* per operation: what it returned or raised
    stale      \* per operation: the base file changed between read and write

ghVars == <<now, refs, prs, commits, pc, req, branch, base_sha, sha, newdoc,
            target, calls, result, stale>>

\* the workflow panel (src/sample-python/app-new.py)
VARIABLES
    runs,        \* the workflow runs at the store, newest first: [id, by]
    pending,     \* accepted dispatches whose run does not exist yet
    others,      \* dispatches made by somebody else so far
    bpc,         \* where the batch trigger stands
    idx,         \* the position of the loop in selected_apps
    polls,       \* wait_for_new_run: the time waited, in poll intervals
    before_ids,  \* the trigger's before_ids
    tracked,     \* st.session_state["tracked_runs"]
    outcome,     \* per app: what the trigger reported for it
    dispatched   \* per app: the trigger_workflow calls made for it

runVars == <<runs, pending, others, bpc, idx, polls, before_ids, tracked, outcome, dispatched>>

vars == <<docVars, ghVars, runVars>>

DocInit ==
    /\ doc \in BaseDocs
    /\ orig = doc
    /\ before = doc
    /\ before2 = doc
    /\ last = NoOp
    /\ reps = 0
    /\ edits = 0

Loaded(d) ==
    /\ doc' = d
    /\ orig' = d
    /\ before' = d
    /\ before2' = d
    /\ edits' = edits + 1
    /\ UNCHANGED <<last, reps>>
    /\ UNCHANGED <<ghVars, runVars>>

\* a commit sets one root key of the file
EditRootPut ==
    /\ reps = 0 /\ edits < MaxEdits
    /\ \E e \in RootPuts : Put(doc, e[1], e[2]) # doc /\ Loaded(Put(doc, e[1], e[2]))

\* a commit re-spells the name of a section
EditRootRename ==
    /\ reps = 0 /\ edits < MaxEdits
    /\ \E i \in 1..Len(doc) : \E k2 \in {"blue", "Blue", "BLUE", "green", "Green", "GREEN"} :
          /\ Lower(k2) = Lower(doc[i].k)
          /\ ~HasKey(doc, k2)
          /\ Loaded([doc EXCEPT ![i] = [k |-> k2, v |-> doc[i].v]])

\* a commit deletes one root key of the file
EditRootDel ==
    /\ reps = 0 /\ edits < MaxEdits
    /\ \E i \in 1..Len(doc) : Loaded(Del(doc, doc[i].k))

\* a commit sets one key of a section
EditFieldPut ==
    /\ reps = 0 /\ edits < MaxEdits
    /\ \E i \in 1..Len(doc) : \E e \in FieldPuts :
          /\ IsMap(doc[i].v)
          /\ Put(doc[i].v[2], e[1], e[2]) # doc[i].v[2]
          /\ Loaded(Put(doc, doc[i].k, Map(Put(doc[i].v[2], e[1], e[2]))))

\* a commit deletes one key of a section
EditFieldDel ==
    /\ reps = 0 /\ edits < MaxEdits
    /\ \E i \in 1..Len(doc) :
          /\ IsMap(doc[i].v)
          /\ \E j \in 1..Len(doc[i].v[2]) :
                Loaded(Put(doc, doc[i].k, Map(Del(doc[i].v[2], doc[i].v[2][j].k))))

\* the same mutation may be applied again, MaxRepeat times in all
MayApply(o) == reps = 0 \/ (reps < MaxRepeat /\ o = [last EXCEPT !.raised = FALSE, !.active = "", !.target = ""])

Applied(o, d) ==
    /\ MayApply([o EXCEPT !.raised = FALSE, !.active = "", !.target = ""])
    /\ before' = doc
    /\ before2' = before
    /\ doc' = d
    /\ last' = o
    /\ reps' = reps + 1
    /\ UNCHANGED <<orig, edits>>
    /\ UNCHANGED <<ghVars, runVars>>

\* propose_auto_flip, lines 270-278: detect, flip, optionally switch off
ApplyAutoFlip ==
    \E off \in BOOLEAN :
        LET r == AutoFlip(doc, off)
        IN  Applied([NoOp EXCEPT !.op = "flip", !.off = off, !.raised = r.raised,
                                 !.active = r.active, !.target = r.target], r.doc)

\* propose_version_update, line 242
ApplyUpdateVersion ==
    \E slot \in Slots : \E v \in Versions :
        Applied([NoOp EXCEPT !.op = "version", !.slot = slot, !.version = v],
                update_version(doc, slot, v))

\* turn_off_standby_switch called on its own
ApplyTurnOff ==
    \E slot \in Slots :
        Applied([NoOp EXCEPT !.op = "switch", !.slot = slot],
                turn_off_standby_switch(doc, slot))

NextDoc ==
    \/ EditRootPut
    \/ EditRootRename
    \/ EditRootDel
    \/ EditFieldPut
    \/ EditFieldDel
    \/ ApplyAutoFlip
    \/ ApplyUpdateVersion
    \/ ApplyTurnOff


----------------------------------------------------------------------------
(* Part 2.  The store and the propose operations.                          *)
(*                                                                         *)
(* A ref name is a record [action, at]: feat/<app>-<env>-<action>-<UTC     *)
(* second> for one app and one env label; the base branch is the ref       *)
(* BaseBranch.  The store holds, per ref, the bytes of the file at         *)
(* yaml_path.  A blob sha identifies the bytes it was computed from.       *)

Procs == {"u1", "u2"}

BaseBranch == [action |-> "main", at |-> 0]
YamlPath == "apps/app1/values-dev-us.yaml"

\* the bytes of a file: an empty file, or the YAML text of a document
EmptyFile == <<"empty", <<>>>>
\* dump_yaml_to_bytes(doc)
dump_yaml_to_bytes(d) == <<"yaml", d>>
\* yaml_loader.load(...) or {} : an empty file loads as None and becomes {}
LoadYaml(bytes) == IF bytes[1] = "empty" THEN EmptyDoc ELSE bytes[2]

Sha(bytes) == <<"sha", bytes>>
NoSha == <<"none", <<>>>>

BaseFiles == {EmptyFile, dump_yaml_to_bytes(ReadmeDoc)}

\* what another operator's merged auto-flip turns the file at the base branch into
ExternalEdits(bytes) ==
    { dump_yaml_to_bytes(AutoFlip(LoadYaml(bytes), FALSE).doc) } \ {bytes}

MaxClock == 1
MaxCommits == 1

\* The calls of the propose functions.  flow tells where the target slot of
\* a version update comes from: given by the caller ("direct"), or picked by
\* the 'update STANDBY version' button from the document it loads first
\* ("standby", lines 457-473).
Requests ==
    [kind : {"version"}, slot : {"purple"}, version : Versions, off : {FALSE},
     flow : {"direct"}]
    \cup [kind : {"version"}, slot : {"blue", "green"}, version : Versions, off : {FALSE},
           flow : {"standby"}]
    \cup [kind : {"flip"}, slot : {""}, version : {""}, off : {TRUE}, flow : {"direct"}]

NoRequest == [kind |-> "none", slot |-> "", version |-> "", off |-> FALSE, flow |-> "direct"]

\* the action part of the branch name (lines 238 and 266)
ActionOf(r) ==
    IF r.kind = "flip" THEN "auto-flip"
    ELSE CASE r.slot = "blue" -> "update-blue-version"
           [] r.slot = "green" -> "update-green-version"
           [] OTHER -> "update-purple-version"

\* build_branch_name(app_label, env_label, action) at UTC second t
build_branch_name(action, t) == [action |-> action, at |-> t]



\* faulty variant: the store never refuses to create a ref
RefNeverTaken(name) == FALSE

HasRef(name) == \E r \in refs : r.name = name
FileAt(name) == (CHOOSE r \in refs : r.name = name).file
SetFile(name, bytes) ==
    {r \in refs : r.name # name} \cup {[name |-> name, file |-> bytes]}

\* section_prod, lines 459-461: the slot the button hands to
\* propose_version_update, from the document at the base branch now
UiTarget == standby_slot(detect_active_slot(LoadYaml(FileAt(BaseBranch))).val)

NoResult == [state |-> "running", error |-> "", branch |-> BaseBranch,
             pr |-> FALSE, new_active |-> ""]

GhInit ==
    /\ now = 0
    /\ \E f \in BaseFiles : refs = {[name |-> BaseBranch, file |-> f]}
    /\ prs = {}
    /\ commits = 0
    /\ pc = [p \in Procs |-> "idle"]
    /\ req = [p \in Procs |-> NoRequest]
    /\ branch = [p \in Procs |-> BaseBranch]
    /\ base_sha = [p \in Procs |-> EmptyFile]
    /\ sha = [p \in Procs |-> NoSha]
    /\ newdoc = [p \in Procs |-> EmptyDoc]
    /\ target = [p \in Procs |-> ""]
    /\ calls = [p \in Procs |-> <<>>]
    /\ result = [p \in Procs |-> NoResult]
    /\ stale = [p \in Procs |-> FALSE]

\* one remote call, as GH._req sees it
Call(name, ref, s, status) ==
    [call |-> name, ref |-> ref, path |-> YamlPath, sha |-> s, status |-> status]

Logged(p, c) == calls' = [calls EXCEPT ![p] = Append(@, c)]

\* GH._req, lines 43-44: a status >= 400 raises RuntimeError, which nothing
\* in the propose functions catches
Raised(p, error) ==
    /\ pc' = [pc EXCEPT ![p] = "failed"]
    /\ result' = [result EXCEPT ![p] = [NoResult EXCEPT !.state = "raised", !.error = error]]

\* The UTC clock advances.  _now_slug (line 28) is read only when an
\* operation starts, so the clock is followed while one may still start.
Tick ==
    /\ now < MaxClock
    /\ \E p \in Procs : pc[p] = "idle"
    /\ now' = now + 1
    /\ UNCHANGED <<refs, prs, commits, pc, req, branch, base_sha, sha, newdoc,
                   target, calls, result, stale>>
    /\ UNCHANGED <<docVars, runVars>>

\* Somebody else's change lands on the base branch, while an operation can
\* still see it.
ExternalCommit ==
    /\ commits < MaxCommits
    /\ \E p \in Procs : pc[p] \notin {"done", "failed"}
    /\ \E f \in ExternalEdits(FileAt(BaseBranch)) : refs' = SetFile(BaseBranch, f)
    /\ commits' = commits + 1
    /\ stale' = [p \in Procs |-> stale[p] \/ pc[p] = "put_file"]
    /\ UNCHANGED <<now, prs, pc, req, branch, base_sha, sha, newdoc, target, calls, result>>
    /\ UNCHANGED <<docVars, runVars>>

\* faulty variant: the branch of the failed operation is deleted
RefsRolledBack(p) == {r \in refs : r.name # branch[p]}

\* the refs of the repository after a call of operation p raised: the
\* propose functions have no handler, so nothing is undone
RefsAfterError(p) == refs

\* faulty variant: the file is read before the branch is created
StepAfterReadFirst(step) ==
    CASE step = "get_ref" -> "get_file"
      [] step = "get_file" -> "create_ref"
      [] step = "create_ref" -> "put_file"
      [] step = "put_file" -> "create_pr"
      [] OTHER -> "done"

\* the statement a propose function executes after a remote call returned
\* (lines 239-254, 267-291)
StepAfter(step) ==
    CASE step = "get_ref" -> "create_ref"
      [] step = "create_ref" -> "get_file"
      [] step = "get_file" -> "put_file"
      [] step = "put_file" -> "create_pr"
      [] OTHER -> "done"

\* propose_version_update / propose_auto_flip are called: lines 238, 266
Begin(p) ==
    /\ pc[p] = "idle"
    /\ \E r \in Requests :
          /\ r.flow = "standby" => r.slot = UiTarget
          /\ req' = [req EXCEPT ![p] = r]
          /\ branch' = [branch EXCEPT ![p] = build_branch_name(ActionOf(r), now)]
    /\ pc' = [pc EXCEPT ![p] = "get_ref"]
    /\ UNCHANGED <<now, refs, prs, commits, base_sha, sha, newdoc, target, calls, result, stale>>
    /\ UNCHANGED <<docVars, runVars>>

\* create_branch, line 56: get_branch_sha(from_branch)
GetBranchSha(p) ==
    /\ pc[p] = "get_ref"
    /\ base_sha' = [base_sha EXCEPT ![p] = FileAt(BaseBranch)]
    /\ Logged(p, Call("get_ref", BaseBranch, NoSha, 200))
    /\ pc' = [pc EXCEPT ![p] = StepAfter("get_ref")]
    /\ UNCHANGED <<now, refs, prs, commits, req, branch, sha, newdoc, target, result, stale>>
    /\ UNCHANGED <<docVars, runVars>>

\* create_branch, lines 57-61: POST git/refs; 422 when the ref exists
CreateRef(p) ==
    /\ pc[p] = "create_ref"
    /\ IF HasRef(branch[p])
       THEN /\ Logged(p, Call("create_ref", branch[p], NoSha, 422))
            /\ Raised(p, "AlreadyExists")
            /\ UNCHANGED refs
       ELSE /\ Logged(p, Call("create_ref", branch[p], NoSha, 201))
            /\ refs' = refs \cup {[name |-> branch[p], file |-> base_sha[p]]}
            /\ pc' = [pc EXCEPT ![p] = StepAfter("create_ref")]
            /\ UNCHANGED result
    /\ UNCHANGED <<now, prs, commits, req, branch, base_sha, sha, newdoc, target, stale>>
    /\ UNCHANGED <<docVars, runVars>>

\* The mutation a propose function applies to the loaded document
\* (line 242; lines 270-278).
Mutate(r, d) ==
    IF r.kind = "version"
    THEN [raised |-> FALSE, active |-> "", target |-> "",
          doc |-> update_version(d, r.slot, r.version)]
    ELSE AutoFlip(d, r.off)

\* the branch load_yaml_from_repo reads (lines 241 and 269)
ReadRef(p) == BaseBranch

\* load_yaml_from_repo (lines 189-196) and the mutation that follows it; an
\* exception of the mutation ends the operation
GetFile(p) ==
    /\ pc[p] = "get_file"
    /\ LET bytes == FileAt(ReadRef(p))
           m == Mutate(req[p], LoadYaml(bytes))
       IN  /\ Logged(p, Call("get_file", ReadRef(p), Sha(bytes), 200))
           /\ sha' = [sha EXCEPT ![p] = Sha(bytes)]
           /\ IF m.raised
              THEN /\ Raised(p, "AttributeError")
                   /\ UNCHANGED <<newdoc, target>>
              ELSE /\ newdoc' = [newdoc EXCEPT ![p] = m.doc]
                   /\ target' = [target EXCEPT ![p] = m.target]
                   /\ pc' = [pc EXCEPT ![p] = StepAfter("get_file")]
                   /\ UNCHANGED result
    /\ UNCHANGED <<now, refs, prs, commits, req, branch, base_sha, stale>>
    /\ UNCHANGED <<docVars, runVars>>

\* faulty variant: the write is given the sha the branch has now
WriteShaOfBranch(p) == Sha(FileAt(branch[p]))

\* the sha update_file is given (lines 246 and 282): the one of the read
WriteSha(p) == sha[p]

\* update_file, lines 67-75: PUT contents on branch_name with the sha read;
\* the store answers 409 unless the sha is that of the branch's file
PutFile(p) ==
    /\ pc[p] = "put_file"
    /\ IF WriteSha(p) # Sha(FileAt(branch[p]))
       THEN /\ Logged(p, Call("put_file", branch[p], WriteSha(p), 409))
            /\ Raised(p, "Conflict")
            /\ refs' = RefsAfterError(p)
       ELSE /\ Logged(p, Call("put_file", branch[p], WriteSha(p), 200))
            /\ refs' = SetFile(branch[p], dump_yaml_to_bytes(newdoc[p]))
            /\ pc' = [pc EXCEPT ![p] = StepAfter("put_file")]
            /\ UNCHANGED result
    /\ UNCHANGED <<now, prs, commits, req, branch, base_sha, sha, newdoc, target, stale>>
    /\ UNCHANGED <<docVars, runVars>>

\* create_pr, lines 77-82, and the return (lines 254 and 291)
CreatePr(p) ==
    /\ pc[p] = "create_pr"
    /\ Logged(p, Call("create_pr", branch[p], NoSha, 201))
    /\ prs' = prs \cup {[head |-> branch[p], base |-> BaseBranch, by |-> p]}
    /\ pc' = [pc EXCEPT ![p] = StepAfter("create_pr")]
    /\ result' = [result EXCEPT ![p] =
                    [state |-> "returned", error |-> "", branch |-> branch[p],
                     pr |-> TRUE, new_active |-> target[p]]]
    /\ UNCHANGED <<now, refs, commits, req, branch, base_sha, sha, newdoc, target, stale>>
    /\ UNCHANGED <<docVars, runVars>>

RemoteSteps == {"get_ref", "create_ref", "get_file", "put_file", "create_pr"}

\* faulty variant: a failed file write is issued again
AfterErrorRetry(step) == IF step = "put_file" THEN "put_file" ELSE "failed"

\* faulty variant: an error of the file write is swallowed
AfterErrorContinue(step) == IF step = "put_file" THEN "create_pr" ELSE "failed"

\* where a propose function stands after a remote call raised: nothing
\* catches the RuntimeError of _req
AfterError(step) == "failed"

\* any remote call can fail on its own (a 5xx, a 401, a timeout): _req raises
CallFails(p) ==
    /\ pc[p] \in RemoteSteps
    /\ Logged(p, Call(pc[p], IF pc[p] \in {"get_ref", "get_file"} THEN BaseBranch ELSE branch[p],
                      IF pc[p] = "put_file" THEN sha[p] ELSE NoSha, 500))
    /\ pc' = [pc EXCEPT ![p] = AfterError(pc[p])]
    /\ result' = [result EXCEPT ![p] =
                    IF AfterError(pc[p]) = "failed"
                    THEN [NoResult EXCEPT !.state = "raised", !.error = "RemoteUnavailable"]
                    ELSE @]
    /\ refs' = RefsAfterError(p)
    /\ UNCHANGED <<now, prs, commits, req, branch, base_sha, sha, newdoc, target, stale>>
    /\ UNCHANGED <<docVars, runVars>>

Next ==
    \/ Tick
    \/ ExternalCommit
    \/ \E p \in Procs : Begin(p)
    \/ \E p \in Procs : GetBranchSha(p)
    \/ \E p \in Procs : CreateRef(p)
    \/ \E p \in Procs : GetFile(p)
    \/ \E p \in Procs : PutFile(p)
    \/ \E p \in Procs : CreatePr(p)
    \/ \E p \in Procs : CallFails(p)

\* the document machine at rest, while the operations run
DocIdle ==
    /\ doc = EmptyDoc
    /\ orig = EmptyDoc
    /\ before = EmptyDoc
    /\ before2 = EmptyDoc
    /\ last = NoOp
    /\ reps = 0
    /\ edits = 0

\* the store at rest, while documents are mutated in memory
GhIdle ==
    /\ now = 0
    /\ refs = {[name |-> BaseBranch, file |-> EmptyFile]}
    /\ prs = {}
    /\ commits = 0
    /\ pc = [p \in Procs |-> "idle"]
    /\ req = [p \in Procs |-> NoRequest]
    /\ branch = [p \in Procs |-> BaseBranch]
    /\ base_sha = [p \in Procs |-> EmptyFile]
    /\ sha = [p \in Procs |-> NoSha]
    /\ newdoc = [p \in Procs |-> EmptyDoc]
    /\ target = [p \in Procs |-> ""]
    /\ calls = [p \in Procs |-> <<>>]
    /\ result = [p \in Procs |-> NoResult]
    /\ stale = [p \in Procs |-> FALSE]

\* selected_apps of the workflow panel
Apps == <<"app1", "app2">>

\* the workflow panel before a trigger: one earlier run of the workflow
\* exists, nothing is tracked
RunsInit ==
    /\ runs = <<[id |-> 1, by |-> "earlier"]>>
    /\ pending = {}
    /\ others = 0
    /\ bpc = "idle"
    /\ idx = 1
    /\ polls = 0
    /\ before_ids = {}
    /\ tracked = <<>>
    /\ outcome = [i \in 1..Len(Apps) |-> "none"]
    /\ dispatched = [i \in 1..Len(Apps) |-> 0]

Init == DocIdle /\ GhInit /\ RunsInit
Spec == Init /\ [][Next]_vars

InitDoc == DocInit /\ GhIdle /\ RunsInit
SpecDoc == InitDoc /\ [][NextDoc]_vars

----------------------------------------------------------------------------
(* Properties of the document mutations (checked under SpecDoc).           *)

\* an auto-flip has just been applied and did not raise
FlipDone == last.op = "flip" /\ ~last.raised /\ reps >= 1

\* the sections set_active_slot_both writes: keyed blue, green, Blue or
\* Green, and a mapping
FlipSections(d) ==
    {i \in 1..Len(d) : d[i].k \in {"blue", "green", "Blue", "Green"} /\ IsMap(d[i].v)}

\* the keys of mapping m whose lower-cased name is in names
Matching(m, names) == {j \in 1..Len(m) : Lower(m[j].k) \in names}

StandbyweightNames == {"standbyweight", "standybyweight"}

\* every key of m spelled like one of names holds value v, and there is one
AllHold(m, names, v) ==
    /\ Matching(m, names) # {}
    /\ \A j \in Matching(m, names) : m[j].v = v

\* C1: after an auto-flip every section keyed blue, green, Blue
\* or Green that is a mapping has its activeslot field equal to the target,
\* whichever activeslot key of the section one looks at.
C1_EveryActiveslotIsTarget ==
    FlipDone =>
        \A i \in FlipSections(doc) : AllHold(doc[i].v[2], {"activeslot"}, Str(last.target))

\* the weights the claim gives the section keyed sec when target is active
WeightOf(sec, tgt) == Num(IF Lower(sec) = tgt THEN 100 ELSE 0)
StandbyweightOf(sec, tgt) == Num(IF Lower(sec) = tgt THEN 0 ELSE 100)

\* C2: after an auto-flip, in every present blue/green section
\* that is a mapping the section of the new active colour has weight 100 and
\* standbyweight 0 and the other one weight 0 and standbyweight 100,
\* whatever casing or accepted misspelling of the keys the section carries.
C2_EveryWeightFollowsTarget ==
    FlipDone =>
        \A i \in FlipSections(doc) :
            /\ AllHold(doc[i].v[2], {"weight"}, WeightOf(doc[i].k, last.target))
            /\ AllHold(doc[i].v[2], StandbyweightNames, StandbyweightOf(doc[i].k, last.target))

\* C3: detect_active_slot applied to the document a flip
\* produced returns the target the flip reported.
C3_DetectAfterFlipIsTarget ==
    FlipDone => detect_active_slot(doc) = [raised |-> FALSE, val |-> last.target]

\* the blue/green sections of a document, in any casing
ColourSections(d) == {i \in 1..Len(d) : Lower(d[i].k) \in {"blue", "green"}}

SlotFieldNames == {"activeslot", "weight"} \cup StandbyweightNames

\* the activeslot, weight and standbyweight fields of every blue/green section
SlotState(d) ==
    UNION { { <<d[i].k, d[i].v[2][j].k, d[i].v[2][j].v>> :
                j \in Matching(d[i].v[2], SlotFieldNames) } :
            i \in {c \in ColourSections(d) : IsMap(d[c].v)} }

\* A well-formed document (section 3 of the spec): every blue/green section
\* is a mapping with one activeslot, one weight and one standbyweight key,
\* all sections name the same active colour a, which is blue or green, and
\* the weights are 100/0 in the section of colour a and 0/100 in the other.
WellFormed(d) ==
    /\ ColourSections(d) # {}
    /\ \E a \in {"blue", "green"} :
          \A i \in ColourSections(d) :
              /\ IsMap(d[i].v)
              /\ Cardinality(Matching(d[i].v[2], {"activeslot"})) = 1
              /\ Cardinality(Matching(d[i].v[2], {"weight"})) = 1
              /\ Cardinality(Matching(d[i].v[2], StandbyweightNames)) = 1
              /\ AllHold(d[i].v[2], {"activeslot"}, Str(a))
              /\ AllHold(d[i].v[2], {"weight"}, WeightOf(d[i].k, a))
              /\ AllHold(d[i].v[2], StandbyweightNames, StandbyweightOf(d[i].k, a))

\* C4: for a well-formed document, two auto-flips in a row yield
\* a document whose activeslot, weight and standbyweight fields in every
\* blue/green section are those of the original document.
C4_FlipTwiceRestores ==
    (last.op = "flip" /\ ~last.raised /\ reps = 2 /\ WellFormed(orig))
        => SlotState(doc) = SlotState(orig)

\* the root keys that hold the version of a slot
VersionKeysOf(d, slot) == {i \in 1..Len(d) : Lower(d[i].k) \in VersionKeys(slot)}

\* an update_version for slot blue or green has just been applied
VersionDone == last.op = "version" /\ reps >= 1 /\ last.slot \in {"blue", "green"}

\* C5: update_version(doc, slot, v) for slot blue or green leaves every
\* version key of the other slot with its value, adds no version key of the
\* other slot, and changes the value of no key that is not a version key of
\* the targeted slot.
C5_OtherSlotVersionKept ==
    VersionDone =>
        LET other == standby_slot(last.slot)
        IN  /\ \A i \in VersionKeysOf(before, other) :
                  HasKey(doc, before[i].k) /\ Get(doc, before[i].k) = before[i].v
            /\ {doc[i].k : i \in VersionKeysOf(doc, other)}
                  = {before[i].k : i \in VersionKeysOf(before, other)}
            /\ \A i \in 1..Len(before) :
                  Lower(before[i].k) \notin VersionKeys(last.slot)
                      => HasKey(doc, before[i].k) /\ Get(doc, before[i].k) = before[i].v

\* C5 witness: the blue version was overwritten in a document that holds a
\* green version
C5_Witness ==
    /\ VersionDone /\ last.slot = "blue" /\ doc # before
    /\ VersionKeysOf(before, "blue") # {}
    /\ VersionKeysOf(before, "green") # {}

\* C6: a mutation (update_version, turn_off_standby_switch)
\* called with a slot that is neither blue nor green fails with an
\* InvalidArgument error and leaves the document exactly as it was.
C6_BadSlotRejected ==
    (reps >= 1 /\ last.op \in {"version", "switch"} /\ last.slot \notin {"blue", "green"})
        => (last.raised /\ doc = before)

----------------------------------------------------------------------------
(* Properties of the propose operations (checked under Spec).              *)

CallNames(p) == [i \in 1..Len(calls[p]) |-> calls[p][i].call]
Failed(c) == c.status >= 400
CallsOf(p, name) == {i \in 1..Len(calls[p]) : calls[p][i].call = name}

\* C7: if update_file reports a conflict or any other error, create_pr is
\* never called and no pull-request handle is returned.
C7_NoPrAfterFailedWrite ==
    \A p \in Procs :
        (\E i \in CallsOf(p, "put_file") : Failed(calls[p][i]))
            => /\ CallsOf(p, "create_pr") = {}
               /\ ~result[p].pr
               /\ \A pr \in prs : pr.by # p

\* C7 witness: one operation's write was refused with 409 and it raised
C7_Witness ==
    \E p \in Procs :
        /\ \E i \in CallsOf(p, "put_file") : calls[p][i].status = 409
        /\ pc[p] = "failed" /\ result[p].state = "raised"

CallOrder == <<"get_ref", "create_ref", "get_file", "put_file", "create_pr">>

\* C8: the remote calls of a propose operation are issued in the order
\* create branch, read file, write file, create pull request; a call is
\* issued only after the previous one succeeded, and a failed call is the
\* operation's last call.
C8_CallsInOrder ==
    \A p \in Procs :
        /\ Len(calls[p]) <= Len(CallOrder)
        /\ CallNames(p) = SubSeq(CallOrder, 1, Len(calls[p]))
        /\ \A i \in 1..Len(calls[p]) : Failed(calls[p][i]) => i = Len(calls[p])
        /\ (calls[p] # <<>> /\ Failed(calls[p][Len(calls[p])])) => pc[p] = "failed"

\* C8 witness: one operation went through all its calls and returned, the
\* other stopped at a failed read
C8_Witness ==
    \E p, q \in Procs :
        /\ pc[p] = "done" /\ CallNames(p) = CallOrder
        /\ pc[q] = "failed" /\ Len(calls[q]) = 3 /\ Failed(calls[q][3])

\* C9: the sha given to the write is the one the preceding read returned,
\* and that read was made on the branch and path the write targets.
C9_WriteUsesReadOfSameBranch ==
    \A p \in Procs : \A i \in CallsOf(p, "put_file") :
        /\ i > 1 /\ calls[p][i - 1].call = "get_file"
        /\ calls[p][i].sha = calls[p][i - 1].sha
        /\ calls[p][i].path = calls[p][i - 1].path
        /\ calls[p][i].ref = calls[p][i - 1].ref

\* C10: if the file at the base ref changes between an operation's read and
\* its write, the write reports Conflict, the operation ends with a Conflict
\* error and returns no pull-request handle.
C10_StaleWriteConflicts ==
    \A p \in Procs :
        (stale[p] /\ CallsOf(p, "put_file") # {})
            => /\ \A i \in CallsOf(p, "put_file") : calls[p][i].status = 409
               /\ result[p].state = "raised" /\ result[p].error = "Conflict"
               /\ ~result[p].pr

\* the calls of operation p named name that succeeded
Succeeded(p, name) == {i \in CallsOf(p, name) : ~Failed(calls[p][i])}

\* C11: a propose operation issues at most one create-branch, at most one
\* file write and at most one create-pull-request request, also when calls
\* fail.
C11_NoRetry ==
    \A p \in Procs : \A name \in {"create_ref", "put_file", "create_pr"} :
        Cardinality(CallsOf(p, name)) <= 1

\* C11 witness: an operation whose file write failed has ended, with one
\* create-branch and one write request behind it
C11_Witness ==
    \E p \in Procs :
        /\ pc[p] = "failed"
        /\ Cardinality(CallsOf(p, "create_ref")) = 1
        /\ Cardinality(CallsOf(p, "put_file")) = 1
        /\ \E i \in CallsOf(p, "put_file") : Failed(calls[p][i])

\* the operation was called with a target slot that is no slot
Malformed(r) == r.kind = "version" /\ r.slot \notin {"blue", "green"}

\* C12: a propose operation called with a target slot that is neither blue
\* nor green fails before it issues any remote call.
C12_MalformedFailsFast ==
    \A p \in Procs :
        Malformed(req[p]) => (calls[p] = <<>> /\ ~result[p].pr)

\* C13: when a propose operation fails after its branch was created, the
\* error the caller gets carries the name of that branch.
C13_ErrorNamesBranch ==
    \A p \in Procs :
        (pc[p] = "failed" /\ Succeeded(p, "create_ref") # {})
            => (result[p].state = "raised" /\ result[p].branch = branch[p])

\* C14: a branch that a propose operation created still exists when a later
\* step of the operation has failed, and as long as the operation runs.
C14_BranchLeftBehind ==
    \A p \in Procs : Succeeded(p, "create_ref") # {} => HasRef(branch[p])

\* C14 witness: the write of an operation failed after its branch was
\* created, and the branch is there
C14_Witness ==
    \E p \in Procs :
        /\ pc[p] = "failed" /\ Succeeded(p, "create_ref") # {}
        /\ \E i \in CallsOf(p, "put_file") : Failed(calls[p][i])
        /\ HasRef(branch[p]) /\ branch[p] # BaseBranch

\* C15: of two propose operations with the same branch name at most one
\* creates the branch; one whose create-branch request was refused writes no
\* file and opens no pull request, and a branch is written only by the
\* operation that created it.
C15_OneCreatorPerBranch ==
    \A p, q \in Procs :
        /\ (p # q /\ branch[p] = branch[q] /\ Succeeded(p, "create_ref") # {})
              => Succeeded(q, "create_ref") = {}
        /\ (\E i \in CallsOf(p, "create_ref") : Failed(calls[p][i]))
              => (CallsOf(p, "put_file") = {} /\ CallsOf(p, "create_pr") = {}
                  /\ \A pr \in prs : pr.by # p)
        /\ Succeeded(p, "put_file") # {} => Succeeded(p, "create_ref") # {}

\* C15 witness: two operations took the same branch name; one created the
\* branch, the other was refused with 422 and ended
C15_Witness ==
    \E p, q \in Procs :
        /\ p # q /\ branch[p] = branch[q] /\ branch[p] # BaseBranch
        /\ Succeeded(p, "create_ref") # {}
        /\ \E i \in CallsOf(q, "create_ref") : calls[q][i].status = 422
        /\ pc[q] = "failed"

----------------------------------------------------------------------------
(* More properties of the document functions (checked under SpecDoc).      *)

\* detect_active_slot has just been applied to the document before, as the
\* first step of an auto-flip, and returned
Detected == last.op = "flip" /\ reps >= 1 /\ ~last.raised

\* the position of the key of m spelled name in some casing (the last one,
\* should several casings be present), 0 when there is none
KeyAt(m, name) ==
    IF Matching(m, {name}) = {} THEN 0
    ELSE CHOOSE j \in Matching(m, {name}) : \A j2 \in Matching(m, {name}) : j2 <= j

\* the section of that colour is a mapping that carries an activeslot field
CarriesSlot(d, colour) ==
    /\ KeyAt(d, colour) # 0
    /\ IsMap(d[KeyAt(d, colour)].v)
    /\ KeyAt(d[KeyAt(d, colour)].v[2], "activeslot") # 0

SlotIn(d, colour) ==
    LET m == d[KeyAt(d, colour)].v[2] IN m[KeyAt(m, "activeslot")].v

Trimmed(v) == Lower(Strip(PyStr(v)))

\* the slot the precedence rule of the specification gives
Precedence(d) ==
    IF CarriesSlot(d, "blue") THEN Trimmed(SlotIn(d, "blue"))
    ELSE IF CarriesSlot(d, "green") THEN Trimmed(SlotIn(d, "green"))
    ELSE IF KeyAt(d, "activeslot") # 0 THEN Trimmed(d[KeyAt(d, "activeslot")].v)
    ELSE "blue"

\* C16: what detect_active_slot returns is the blue section's activeslot if
\* that section is a mapping carrying the field, else the green section's,
\* else a root-level activeslot, else blue; the value is trimmed and
\* lower-cased.
C16_DetectPrecedence == Detected => last.active = Precedence(before)

\* C16 witness: the blue and the green section name different slots, and
\* the blue section's one was returned
C16_Witness ==
    /\ Detected
    /\ CarriesSlot(before, "blue") /\ CarriesSlot(before, "green")
    /\ Trimmed(SlotIn(before, "blue")) # Trimmed(SlotIn(before, "green"))
    /\ last.active = Trimmed(SlotIn(before, "blue"))

\* C16 witness of the later ranks: no section carries the field and the
\* root-level activeslot was returned
C16_RootWitness ==
    /\ Detected
    /\ ~CarriesSlot(before, "blue") /\ ~CarriesSlot(before, "green")
    /\ KeyAt(before, "activeslot") # 0 /\ last.active = "green"

\* another casing of a key: a permutation of the spellings of each name
Recase(k) ==
    CASE k = "blue" -> "Blue" [] k = "Blue" -> "BLUE" [] k = "BLUE" -> "blue"
      [] k = "green" -> "GREEN" [] k = "GREEN" -> "Green" [] k = "Green" -> "green"
      [] k = "activeslot" -> "ActiveSlot" [] k = "ActiveSlot" -> "activeslot"
      [] OTHER -> k

RecaseMap(m) == [j \in 1..Len(m) |-> [k |-> Recase(m[j].k), v |-> m[j].v]]

\* the same document with every section name and field name in another casing
RecaseDoc(d) ==
    [i \in 1..Len(d) |->
        [k |-> Recase(d[i].k),
         v |-> IF IsMap(d[i].v) THEN Map(RecaseMap(d[i].v[2])) ELSE d[i].v]]

\* C17: documents that differ only in the casing of their section names and
\* field names give the same detected slot.
C17_DetectIgnoresCase ==
    (last.op = "flip" /\ reps >= 1) =>
        /\ detect_active_slot(RecaseDoc(before)) = detect_active_slot(before)
        /\ detect_active_slot(RecaseDoc(RecaseDoc(before))) = detect_active_slot(before)
        /\ detect_active_slot(before).raised = last.raised
        /\ ~last.raised => detect_active_slot(before).val = last.active

\* C17 witness: a document with capitalised keys and its other casing,
\* both detected as green
C17_Witness ==
    /\ Detected /\ last.active = "green"
    /\ HasKey(before, "Blue") /\ HasKey(RecaseDoc(before), "BLUE")
    /\ RecaseDoc(before) # before
    /\ detect_active_slot(RecaseDoc(before)).val = "green"

\* C18: applying update_version, set_active_slot_both or
\* turn_off_standby_switch a second time with the same arguments gives the
\* document the first application gave.
C18_Idempotent ==
    /\ (last.op = "version" /\ reps >= 1)
          => update_version(doc, last.slot, last.version) = doc
    /\ (last.op = "switch" /\ reps >= 1)
          => turn_off_standby_switch(doc, last.slot) = doc
    /\ (FlipDone /\ ~last.off)
          => set_active_slot_both(doc, last.target) = doc
    /\ (FlipDone /\ last.off)
          => turn_off_standby_switch(doc, standby_slot(last.target)) = doc

\* C18 witness: a flip rewrote the weights of two sections, and writing the
\* same target again changes nothing
C18_Witness ==
    /\ FlipDone /\ ~last.off /\ doc # before
    /\ Cardinality(FlipSections(doc)) >= 2
    /\ set_active_slot_both(doc, last.target) = doc

\* C19: the auto-flip computation and update_version complete without
\* raising on every document whose values are strings, numbers, booleans or
\* mappings.
C19_NeverRaises ==
    (reps >= 1 /\ last.op \in {"flip", "version"}) => ~last.raised

\* the switch fields of every blue/green section
SwitchState(d) ==
    UNION { { <<d[i].k, d[i].v[2][j].k, d[i].v[2][j].v>> :
                j \in Matching(d[i].v[2], {"blueswitch", "greenswitch"}) } :
            i \in {c \in ColourSections(d) : IsMap(d[c].v)} }

SwitchName(colour) == IF colour = "blue" THEN "blueswitch" ELSE "greenswitch"

\* C20: an auto-flip without turn_off_switch changes no switch field; with
\* turn_off_switch it sets the switch of the slot that is not the new active
\* one to off in every present section of that colour and changes no other
\* switch field.
C20_SwitchOnlyOnRequest ==
    FlipDone =>
        LET off == standby_slot(last.target)
        IN  /\ ~last.off => SwitchState(doc) = SwitchState(before)
            /\ last.off =>
                  /\ \A i \in ColourSections(doc) :
                        (IsMap(doc[i].v) /\ Lower(doc[i].k) = off)
                            => AllHold(doc[i].v[2], {SwitchName(off)}, Str("off"))
                  /\ \A t \in SwitchState(before) :
                        ~(Lower(t[1]) = off /\ Lower(t[2]) = SwitchName(off))
                            => t \in SwitchState(doc)

\* the names under which the version of a slot is kept at the root
VersionNames(slot) ==
    CASE slot = "blue" -> {"appversion_blue", "appversionblue"}
      [] slot = "green" -> {"appversion_green", "appversiongreen"}
      [] OTHER -> {"appversion_purple", "appversionpurple"}

\* every entry of mapping m whose name is not among names is in mapping n
\* with the same value, and n has no other new entry
SameExcept(m, n, names) ==
    /\ \A j \in 1..Len(m) :
          Lower(m[j].k) \notin names => (HasKey(n, m[j].k) /\ Get(n, m[j].k) = m[j].v)
    /\ \A j \in 1..Len(n) :
          Lower(n[j].k) \notin names => HasKey(m, n[j].k)

\* the fields an auto-flip may write in a section
FlipFields(off) ==
    SlotFieldNames \cup (IF off THEN {SwitchName(standby_slot(last.target))} ELSE {})

\* C21: update_version changes no key other than the version keys of the
\* targeted slot; an auto-flip changes no root-level key and, inside a
\* section, no field other than activeslot, weight, standbyweight and, when
\* requested, the switch of the deactivated slot.
C21_UnrecognizedUntouched ==
    /\ (last.op = "version" /\ reps >= 1)
          => SameExcept(before, doc, VersionNames(last.slot))
    /\ FlipDone =>
          /\ Len(doc) = Len(before)
          /\ \A i \in 1..Len(before) :
                /\ doc[i].k = before[i].k
                /\ IsMap(before[i].v) = IsMap(doc[i].v)
                /\ ~IsMap(before[i].v) => doc[i].v = before[i].v
                /\ IsMap(before[i].v)
                      => SameExcept(before[i].v[2], doc[i].v[2], FlipFields(last.off))

\* C22: detect_active_slot gives the same before and after update_version,
\* and the activeslot, weight and standbyweight fields of every section
\* are unchanged.
C22_VersionKeepsActiveState ==
    (last.op = "version" /\ reps >= 1) =>
        /\ detect_active_slot(doc) = detect_active_slot(before)
        /\ SlotState(doc) = SlotState(before)

\* C22 witness: the green version was overwritten in a document whose
\* sections say that green is active
C22_Witness ==
    /\ last.op = "version" /\ reps >= 1 /\ last.slot = "green" /\ doc # before
    /\ SlotState(before) # {}
    /\ detect_active_slot(before) = [raised |-> FALSE, val |-> "green"]

\* C23: update_version for slot blue or green overwrites every root key
\* whose lower-cased name is appversion_<slot> or appversion<slot>, and
\* inserts the key Appversion_<slot> only when there was none; afterwards
\* every version key of the slot holds the new version.
C23_EveryVersionKeyWritten ==
    VersionDone =>
        LET had == {before[i].k : i \in Matching(before, VersionNames(last.slot))}
            has == {doc[i].k : i \in Matching(doc, VersionNames(last.slot))}
        IN  /\ has # {}
            /\ \A i \in Matching(doc, VersionNames(last.slot)) : doc[i].v = Str(last.version)
            /\ had # {} => has = had
            /\ had = {} => has = {IF last.slot = "blue" THEN "Appversion_blue"
                                  ELSE "Appversion_green"}

\* C23 witness: two casings of the blue version key were both overwritten
C23_Witness ==
    /\ VersionDone /\ last.slot = "blue"
    /\ Cardinality(Matching(before, VersionNames("blue"))) >= 2
    /\ \A i \in Matching(before, VersionNames("blue")) : before[i].v # Str(last.version)
    /\ \A i \in Matching(doc, VersionNames("blue")) : doc[i].v = Str(last.version)

\* C24: standby_slot returns blue or green and never its argument; on blue
\* and green it is an involution; the target an auto-flip reports is blue
\* or green and differs from the slot that was detected.
C24_StandbyIsOtherColour ==
    /\ \A x \in {"blue", "green"} : standby_slot(standby_slot(x)) = x
    /\ FlipDone =>
          /\ last.target = standby_slot(last.active)
          /\ last.target \in {"blue", "green"}
          /\ last.target # last.active

\* C24 witness: a flip detected a slot that is no colour and reported blue
C24_Witness ==
    /\ FlipDone /\ last.active \notin {"blue", "green"} /\ last.target = "blue"

----------------------------------------------------------------------------
(* More properties of the propose operations (checked under Spec).         *)

\* the document operation p loaded inside the propose function: the
\* revision its commit is made against
ReadDoc(p) == LoadYaml(sha[p][2])

\* C27: in the 'update STANDBY version' flow the slot whose version is
\* written is the standby slot of the document revision the change is
\* committed against, whatever commits reach the base branch meanwhile.
C27_StandbyOfCommittedRevision ==
    \A p \in Procs :
        (req[p].flow = "standby" /\ Succeeded(p, "put_file") # {})
            => req[p].slot = standby_slot(detect_active_slot(ReadDoc(p)).val)

\* C28: when the file write of a propose operation succeeds, the content
\* committed is the mutation applied to the content the new branch held at
\* the time of the write.
C28_NoLostUpdate ==
    [][\A p \in Procs :
          (pc[p] = "put_file" /\ Succeeded(p, "put_file")' # {})
              => (FileAt(branch[p]))'
                    = dump_yaml_to_bytes(Mutate(req[p], LoadYaml(FileAt(branch[p]))).doc)]_vars

\* C28 witness: a write succeeded on a branch that was created before
\* another commit reached the base branch
C28_Witness ==
    \E p \in Procs :
        /\ Succeeded(p, "put_file") # {} /\ commits >= 1
        /\ FileAt(branch[p]) = dump_yaml_to_bytes(newdoc[p])
        /\ \E q \in Procs : \E i \in CallsOf(q, "put_file") : calls[q][i].status = 409

----------------------------------------------------------------------------
(* Part 3.  The workflow panel of src/sample-python/app-new.py: the batch  *)
(* trigger, wait_for_new_run and refresh_tracked_runs.                     *)

MaxPolls == 2
MaxOthers == 1

RunIds(rs) == {rs[i].id : i \in 1..Len(rs)}

\* list_runs, lines 54-60: the runs of the workflow, or [] when the store
\* does not answer 200
ListRuns == {runs, <<>>}

\* a dispatch was accepted; its run is created later
Dispatched(who) == pending' = pending \cup {who}

\* the store creates the run of an accepted dispatch
RunAppears ==
    /\ \E who \in pending :
          /\ runs' = <<[id |-> Len(runs) + 1, by |-> who]>> \o runs
          /\ pending' = pending \ {who}
    /\ UNCHANGED <<others, bpc, idx, polls, before_ids, tracked, outcome, dispatched>>
    /\ UNCHANGED <<docVars, ghVars>>

\* somebody else dispatches the same workflow on the same branch
OtherDispatch ==
    /\ others < MaxOthers
    /\ bpc # "done"
    /\ "other" \notin pending
    /\ others' = others + 1
    /\ Dispatched("other")
    /\ UNCHANGED <<runs, bpc, idx, polls, before_ids, tracked, outcome, dispatched>>
    /\ UNCHANGED <<docVars, ghVars>>

\* lines 305-311: the trigger button with apps selected; runs_before
StartBatch ==
    /\ bpc = "idle"
    /\ \E rs \in ListRuns : before_ids' = RunIds(rs)
    /\ bpc' = "dispatch"
    /\ UNCHANGED <<runs, pending, others, idx, polls, tracked, outcome, dispatched>>
    /\ UNCHANGED <<docVars, ghVars>>

\* the loop goes on with the next app, or ends (line 313)
NextApp ==
    /\ idx' = idx + 1
    /\ bpc' = IF idx + 1 > Len(Apps) THEN "done" ELSE "dispatch"

\* lines 347-354: trigger_workflow for the app at idx
Dispatch ==
    /\ bpc = "dispatch"
    /\ dispatched' = [dispatched EXCEPT ![idx] = @ + 1]
    /\ \/ /\ Dispatched(Apps[idx])                 \* 204
          /\ bpc' = "wait"
          /\ polls' = 0
          /\ UNCHANGED <<idx, outcome>>
       \/ /\ outcome' = [outcome EXCEPT ![idx] = "failed"]   \* lines 348-350
          /\ NextApp
          /\ UNCHANGED <<pending, polls>>
    /\ UNCHANGED <<runs, others, before_ids, tracked>>
    /\ UNCHANGED <<docVars, ghVars>>

\* faulty variant: the loop of wait_for_new_run has no deadline
NeverExpired(n) == FALSE

\* line 73: time.time() < deadline is false
Expired(n) == n >= MaxPolls

\* lines 75-77: the first run of the list whose id is not in prev_ids, 0 if none
FirstNew(rs, prev_ids) ==
    IF \E i \in 1..Len(rs) : rs[i].id \notin prev_ids
    THEN CHOOSE i \in 1..Len(rs) :
            /\ rs[i].id \notin prev_ids
            /\ \A j \in 1..(i - 1) : rs[j].id \in prev_ids
    ELSE 0

\* track_run, lines 116-125
track_run(app, run_obj) ==
    Append(tracked, [app |-> app, run_id |-> run_obj.id, status |-> "queued",
                     conclusion |-> "none", pr_url |-> "none"])

\* faulty variant: the id of the run found is not remembered
BeforeIdsKept(ids, id) == ids

\* line 359: before_ids.add(new_run["id"])
BeforeIdsAdd(ids, id) == ids \cup {id}

\* One turn of the loop of wait_for_new_run (lines 73-79) and, when it
\* returns, the rest of the loop body of the trigger (lines 355-362).
Poll ==
    /\ bpc = "wait"
    /\ IF Expired(polls)
       THEN /\ outcome' = [outcome EXCEPT ![idx] = "warned"]     \* lines 355-357
            /\ NextApp
            /\ UNCHANGED <<polls, before_ids, tracked>>
       ELSE \E rs \in ListRuns :
               LET i == FirstNew(rs, before_ids)
               IN  IF i # 0
                   THEN /\ before_ids' = BeforeIdsAdd(before_ids, rs[i].id)
                        /\ tracked' = track_run(Apps[idx], rs[i])
                        /\ outcome' = [outcome EXCEPT ![idx] = "tracked"]
                        /\ NextApp
                        /\ UNCHANGED polls
                   ELSE /\ polls' = IF polls < MaxPolls THEN polls + 1 ELSE polls  \* sleep
                        /\ UNCHANGED <<bpc, idx, before_ids, tracked, outcome>>
    /\ UNCHANGED <<runs, pending, others, dispatched>>
    /\ UNCHANGED <<docVars, ghVars>>

\* what get_run_by_id and the search of the job logs can give for one item
Lookups ==
    {[ok |-> FALSE, status |-> "none", conclusion |-> "none", found |-> "none"]}
    \cup [ok : {TRUE}, status : {"queued"}, conclusion : {"none"}, found : {"none"}]
    \cup [ok : {TRUE}, status : {"completed"}, conclusion : {"success"},
          found : {"none", "pull/1", "pull/2"}]

\* faulty variant: the pr_url is written on every refresh
PrUrlOverwritten(item, found) == found

\* lines 136-151: pr_url is looked for only while it is empty
PrUrlAfter(item, found) ==
    IF item.pr_url = "none" /\ found # "none" THEN found ELSE item.pr_url

\* lines 130-152: one item of the loop of refresh_tracked_runs
RefreshItem(item, r) ==
    IF r.ok
    THEN [item EXCEPT !.status = r.status, !.conclusion = r.conclusion,
                      !.pr_url = PrUrlAfter(item, r.found)]
    ELSE item

\* refresh_tracked_runs, lines 127-153
refresh_tracked_runs ==
    /\ bpc \in {"idle", "done"}
    /\ tracked # <<>>
    /\ \E rs \in [1..Len(tracked) -> Lookups] :
          tracked' = [i \in 1..Len(tracked) |-> RefreshItem(tracked[i], rs[i])]
    /\ UNCHANGED <<runs, pending, others, bpc, idx, polls, before_ids, outcome, dispatched>>
    /\ UNCHANGED <<docVars, ghVars>>

NextRuns ==
    \/ RunAppears
    \/ OtherDispatch
    \/ StartBatch
    \/ Dispatch
    \/ Poll
    \/ refresh_tracked_runs

InitRuns == DocIdle /\ GhIdle /\ RunsInit
SpecRuns == InitRuns /\ [][NextRuns]_vars

\* the script runs on: a turn of the waiting loop is always taken
SpecRunsLive == SpecRuns /\ WF_vars(Poll)

----------------------------------------------------------------------------
(* Properties of the workflow panel (checked under SpecRuns, the           *)
(* termination of the wait under SpecRunsLive).                            *)

AppIndex == 1..Len(Apps)
Waiting(i) == bpc = "wait" /\ idx = i
Becomes(i, what) == outcome'[i] = what /\ outcome[i] # what

\* C25: wait_for_new_run terminates.  It returns a run whose id is not in
\* prev_ids, or None once the timeout has elapsed; None is reported as a
\* warning for a dispatch that succeeded, and nothing is tracked for it.
C25_WaitTerminates ==
    /\ \A i \in AppIndex : Waiting(i) ~> ~Waiting(i)
    /\ [][\A i \in AppIndex :
             /\ Becomes(i, "warned")
                   => (Waiting(i) /\ polls >= MaxPolls /\ dispatched[i] = 1
                       /\ tracked' = tracked)
             /\ Becomes(i, "tracked")
                   => (Waiting(i) /\ polls < MaxPolls /\ Len(tracked') = Len(tracked) + 1
                       /\ tracked'[Len(tracked')].run_id \in RunIds(runs) \ before_ids)]_vars

\* C25 witness: the wait for one app timed out and was reported as a warning
C25_Witness ==
    \E i \in AppIndex : outcome[i] = "warned" /\ polls = MaxPolls /\ dispatched[i] = 1

\* the dispatch that created the run with this id
RunBy(id) == runs[CHOOSE j \in 1..Len(runs) : runs[j].id = id].by

\* C26: the run tracked for an app is the run created by that app's own
\* dispatch, never a run of another dispatch and never a run that existed
\* before the batch.
C26_TrackedRunIsOwn ==
    \A i \in 1..Len(tracked) : RunBy(tracked[i].run_id) = tracked[i].app

Entries(app) == {i \in 1..Len(tracked) : tracked[i].app = app}

\* C29: within a batch no two apps are tracked with the same run id and each
\* tracked id is in before_ids; every app is dispatched once; an app whose
\* dispatch failed or whose wait timed out has nothing tracked, and the apps
\* after it are still processed.
C29_OneRunPerApp ==
    /\ \A i, j \in 1..Len(tracked) : i # j => tracked[i].run_id # tracked[j].run_id
    /\ \A i \in 1..Len(tracked) : tracked[i].run_id \in before_ids
    /\ \A i \in AppIndex :
          /\ dispatched[i] = (IF bpc = "idle" \/ i > idx \/ (i = idx /\ bpc = "dispatch")
                              THEN 0 ELSE 1)
          /\ outcome[i] \in {"none", "failed", "warned"} => Entries(Apps[i]) = {}
          /\ outcome[i] = "tracked" => Cardinality(Entries(Apps[i])) = 1
          /\ bpc = "done" => outcome[i] # "none"

\* C29 witness: the batch is over; the first app was given up, the second
\* one has its run tracked
C29_Witness ==
    /\ bpc = "done"
    /\ outcome[1] \in {"failed", "warned"} /\ outcome[2] = "tracked"
    /\ Len(tracked) = 1

FailedLookup == [ok |-> FALSE, status |-> "none", conclusion |-> "none", found |-> "none"]

\* C30: a refresh changes neither the number, the order nor the run_id of
\* the tracked entries; an entry whose lookup fails stays as it is; a
\* pr_url that is set is never cleared or replaced.
C30_RefreshKeepsList ==
    /\ [][(bpc \in {"idle", "done"} /\ bpc' = bpc) =>
             /\ Len(tracked') = Len(tracked)
             /\ \A i \in 1..Len(tracked) :
                   /\ tracked'[i].run_id = tracked[i].run_id
                   /\ tracked'[i].app = tracked[i].app
                   /\ tracked[i].pr_url # "none" => tracked'[i].pr_url = tracked[i].pr_url]_vars
    /\ [](\A i \in 1..Len(tracked) : RefreshItem(tracked[i], FailedLookup) = tracked[i])

\* C30 witness: two runs are tracked; a refresh found the pull request of
\* one of them, the other is still queued
C30_Witness ==
    /\ Len(tracked) = 2
    /\ \E i, j \in 1..2 :
          /\ tracked[i].pr_url = "pull/1" /\ tracked[i].status = "completed"
          /\ tracked[j].pr_url = "none" /\ tracked[j].status = "queued"

====
